---- MODULE Spec2Model ----
(***************************************************************************)
(* State-machine model of teal-editor: the rate-limited deleter            *)
(* (deleter.ts = src/unnamed/part_002), the record pager and range         *)
(* selection (records.ts = src/unnamed/part_001), the delete tool's main   *)
(* (index.ts = src/unnamed/part_000), the TID codec (tid.ts, found at       *)
(* src/src/search.ts lines 128-194) and the analyzer's block scan          *)
(* (src/src/analyze.ts).                                                   *)
(*                                                                         *)
(* Time is wall-clock milliseconds (Date.now()).  sleep(ms) is modelled as *)
(* advancing the clock by exactly ms, the shortest a timer may take.       *)
(* The hourly cap, the service's hard limit and the page size are scaled   *)
(* down (see each definition); all durations keep their source values.     *)
(***************************************************************************)
EXTENDS Integers, Sequences, FiniteSets, TLC

\* ------------------------------------------------------------------ bounds
\* Longest input list handed to deleteRecords.
MaxRecords == 3
\* Date.now() when the run starts.
ClockStartMs == 100000
\* A slow response: the request is answered only this long after it was sent.
SlowLatencyMs == 3599000
\* A slow response is answered within this long of the start of the run.
SlowHorizonMs == 5400000
\* At most this many responses other than plain success in one run.
MaxFaults == 3
\* A 'ratelimit-reset' hint in the future lies this many seconds ahead.
HintAheadS == 5

\* The process is started at most this many times (one start, then restarts
\* after an interruption).
MaxRuns == 2
\* Largest remote collection the pager walks.
MaxCollection == 4
\* The time range of a scan, in ms since epoch (start <= end).
RangeStartMs == 2
RangeEndMs == 4

\* Most identifiers handed to one scan of the decoder's inputs.
MaxTidInputs == 3
\* The largest timestamp among the decoder's inputs, in microseconds, and the
\* end of the range of that scan, in milliseconds.
TidLargestUs == 2147483000
TidRangeEndMs == 2147483

\* Largest --min-block tried.
MaxMinBlock == 4

\* Most responses other than plain success in a run that checks the tallies.
TallyFaults == 6

\* ------------------------------------------------- records.ts: constants
\* const PAGE_SIZE = 100 (scaled to 2)
PAGE_SIZE == 2

\* ------------------------------------------------- deleter.ts: constants
\* const MAX_DELETIONS_PER_HOUR = 4500 (scaled to 2)
MAX_DELETIONS_PER_HOUR == 2
\* "Rate limit: 5000 deletions per hour" (scaled to 3, still above the cap)
HARD_LIMIT_PER_HOUR == 3
HOUR_MS == 60 * 60 * 1000
MAX_RETRIES == 3
BASE_DELAY_MS == 1000
\* sleep(Math.max(waitMs, 1000))
MIN_RATE_WAIT_MS == 1000
\* resetHeader absent: 60000
DEFAULT_RATE_WAIT_MS == 60000
\* sleep(waitMs + 1000)
WINDOW_BUFFER_MS == 1000
\* sleep(50)
INTER_RECORD_DELAY_MS == 50

Keys == {"k1", "k2"}
NoHint == -1
NoRequest == [rec |-> -1, attempt |-> -1, at |-> -1]

Max(a, b) == IF a >= b THEN a ELSE b
Pow2(n) == IF n = 0 THEN 1 ELSE IF n = 1 THEN 2 ELSE 4

VARIABLES
    mpc,                  \* position in main
    run,                  \* how many times the process has been started
    dryRun,               \* --dry-run was given
    credentials,          \* BLUESKY_HANDLE and BLUESKY_APP_PASSWORD are set
    previewShown,         \* history: main has printed the preview (this run)
    answer,               \* history: the answer to the confirmation prompt
    exitReason,           \* history: which process.exit ended the run
    initial,              \* the storage order: the collection as the first run found it
    pending,              \* deletes still in flight when a process was killed
    collection,           \* the remote collection: record keys in storage order
    records,              \* deleteRecords' input list (record keys)
    dpc,                  \* position in deleteRecords
    i,                    \* loop index of deleteRecords (0-based)
    attempt,              \* loop index of deleteWithRetry
    now,                  \* Date.now()
    deletionsThisWindow,  \* rateLimit.deletionsThisWindow
    windowStart,          \* rateLimit.windowStart
    deleted,
    failed,
    errors,
    progress,             \* the onProgress calls made so far
    lastError,
    inflight,             \* the delete request awaiting its response
    log,                  \* history: every answered request
    quotaWaits,           \* history: every quota wait of enforceRateLimit
    faults,               \* history: non-success responses so far
    ppc,                  \* position in getRecordsInRange / listAllRecords
    start,                \* getRecordsInRange's start (ms since epoch)
    end,                  \* getRecordsInRange's end (ms since epoch)
    cursor,               \* listAllRecords' cursor
    page,                 \* response.data.records of the current response
    respCursor,           \* response.data.cursor of the current response
    pidx,                 \* entries of the current page already yielded
    scanned,
    matches,
    warnings,             \* the keys console.warn reported as skipped
    listLog,              \* history: every list request with its response
    yielded,              \* history: every entry the generator yielded
    honest,               \* history: every list response honoured the protocol
    apc,                  \* position in the analyzer's main
    gap,                  \* --gap, in seconds
    minBlock,             \* --min-block
    fetched,              \* analyze.ts' records: the decoded timestamps (ms)
    scanIndex,            \* loop index i of the block scan
    currentBlock,
    blockIndex,
    foundAny,
    reported              \* history: the reportBlock calls made so far

dvars == <<records, dpc, i, attempt, now, deletionsThisWindow, windowStart,
           deleted, failed, errors, progress, lastError, inflight, log,
           quotaWaits, faults>>
pvars == <<ppc, start, end, cursor, page, respCursor, pidx, scanned, matches,
           warnings, listLog, yielded, honest>>
mvars == <<mpc, run, dryRun, credentials, previewShown, answer, exitReason,
           initial, pending>>

avars == <<apc, gap, minBlock, fetched, scanIndex, currentBlock, blockIndex,
           foundAny, reported>>

vars == <<collection, dvars, pvars, mvars, avars>>

Range(s) == {s[j] : j \in 1..Len(s)}
Present(key) == key \in Range(collection)
RECURSIVE Without(_, _)
Without(s, key) ==
    IF s = <<>> THEN <<>>
    ELSE IF Head(s) = key THEN Without(Tail(s), key)
    ELSE <<Head(s)>> \o Without(Tail(s), key)

\* err.message of the error kinds the service can answer with
ErrMessage(kind) ==
    CASE kind = "rateLimited" -> "Rate Limit Exceeded"
      [] kind = "notFound"    -> "Record not found"
      [] kind = "other"       -> "Internal Server Error"
      [] OTHER                -> "Delete failed after retries"

\* ------------------------------------------------------- tid.ts (TID codec)
\* const B32_CHARS = '234567abcdefghijklmnopqrstuvwxyz'
B32_CHARS == <<"2", "3", "4", "5", "6", "7", "a", "b", "c", "d", "e", "f", "g", "h",
               "i", "j", "k", "l", "m", "n", "o", "p", "q", "r", "s", "t", "u", "v",
               "w", "x", "y", "z">>
UpperCase == <<"A", "B", "C", "D", "E", "F", "G", "H", "I", "J", "K", "L", "M", "N",
               "O", "P", "Q", "R", "S", "T", "U", "V", "W", "X", "Y", "Z">>
LowerCase == <<"a", "b", "c", "d", "e", "f", "g", "h", "i", "j", "k", "l", "m", "n",
               "o", "p", "q", "r", "s", "t", "u", "v", "w", "x", "y", "z">>

\* char.toLowerCase()
LowerOf == [c \in {UpperCase[j] : j \in 1..Len(UpperCase)} |->
               LowerCase[CHOOSE j \in 1..Len(UpperCase) : UpperCase[j] = c]]
ToLowerCase(c) == IF c \in DOMAIN LowerOf THEN LowerOf[c] ELSE c

\* B32_CHARS.indexOf(c): the 0-based position, -1 when c does not occur
PositionOf == [c \in {B32_CHARS[j] : j \in 1..Len(B32_CHARS)} |->
                  (CHOOSE j \in 1..Len(B32_CHARS) : B32_CHARS[j] = c) - 1]
IndexOf(c) == IF c \in DOMAIN PositionOf THEN PositionOf[c] ELSE 0 - 1

\* decodeChar: the index of the lower-cased character; -1 stands for the
\* thrown 'Invalid base32 character'
decodeChar(c) == IndexOf(ToLowerCase(c))

\* the loop of tidToDate: timestamp = timestamp * 32 + decodeChar(char);
\* -1 when decodeChar throws on the way
RECURSIVE Accumulate(_, _)
Accumulate(acc, chars) ==
    IF chars = <<>> THEN acc
    ELSE LET index == decodeChar(Head(chars))
         IN  IF index < 0 THEN 0 - 1
             ELSE Accumulate(acc * 32 + index, Tail(chars))

\* Mutant of DateOf: the microseconds are rounded to the nearest millisecond.
DateOf_Rounded(timestamp) ==
    IF timestamp < 0 THEN [ok |-> FALSE, ms |-> 0]
    ELSE [ok |-> TRUE, ms |-> (timestamp + 500) \div 1000]

\* What tidToDate makes of the accumulated timestamp.
DateOf(timestamp) ==
    IF timestamp < 0 THEN [ok |-> FALSE, ms |-> 0]
    ELSE [ok |-> TRUE, ms |-> timestamp \div 1000]

\* tidToDate: [ok |-> TRUE, ms |-> Date.getTime()] or [ok |-> FALSE] when it
\* throws.  A tid is a sequence of one-character strings.
tidToDate(tid) ==
    IF Len(tid) # 13 THEN [ok |-> FALSE, ms |-> 0]
    ELSE DateOf(Accumulate(0, SubSeq(tid, 1, 11)))

\* date >= start && date <= end
Within(date, startMs, endMs) ==
    IF ~date.ok THEN "throws"
    ELSE IF date.ms >= startMs /\ date.ms <= endMs THEN "yes" ELSE "no"
WithinStrictly(date, startMs, endMs) ==
    IF ~date.ok THEN "throws"
    ELSE IF date.ms > startMs /\ date.ms < endMs THEN "yes" ELSE "no"

\* Mutant of tidInRange: the bounds are compared strictly.
tidInRange_Exclusive(tid, startMs, endMs) == WithinStrictly(tidToDate(tid), startMs, endMs)

\* tidInRange: "yes", "no", or "throws" when tidToDate throws
tidInRange(tid, startMs, endMs) == Within(tidToDate(tid), startMs, endMs)

\* ------------------------------------------------------------- records.ts
NoCursor == -1
Min(a, b) == IF a <= b THEN a ELSE b

\* Mutant of InsertByTime: the comparator is reversed (newest first).
RECURSIVE InsertByTime_Descending(_, _)
InsertByTime_Descending(sorted, x) ==
    IF sorted = <<>> THEN <<x>>
    ELSE IF Head(sorted).createdAt >= x.createdAt
         THEN <<Head(sorted)>> \o InsertByTime_Descending(Tail(sorted), x)
         ELSE <<x>> \o sorted

\* Mutant of InsertByTime: entries of equal time change places (< for <=).
RECURSIVE InsertByTime_Unstable(_, _)
InsertByTime_Unstable(sorted, x) ==
    IF sorted = <<>> THEN <<x>>
    ELSE IF Head(sorted).createdAt < x.createdAt
         THEN <<Head(sorted)>> \o InsertByTime_Unstable(Tail(sorted), x)
         ELSE <<x>> \o sorted

\* matches.sort((a, b) => a.createdAt.getTime() - b.createdAt.getTime()):
\* Array.prototype.sort is stable.
RECURSIVE InsertByTime(_, _)
InsertByTime(sorted, x) ==
    IF sorted = <<>> THEN <<x>>
    ELSE IF Head(sorted).createdAt <= x.createdAt
         THEN <<Head(sorted)>> \o InsertByTime(Tail(sorted), x)
         ELSE <<x>> \o sorted
RECURSIVE SortByTime(_)
SortByTime(s) ==
    IF s = <<>> THEN <<>>
    ELSE InsertByTime(SortByTime(SubSeq(s, 1, Len(s) - 1)), s[Len(s)])

PagerIdle ==
    /\ ppc = "idle"
    /\ cursor = NoCursor
    /\ page = <<>>
    /\ respCursor = NoCursor
    /\ pidx = 0
    /\ scanned = 0
    /\ matches = <<>>
    /\ warnings = <<>>
    /\ listLog = <<>>
    /\ yielded = <<>>
    /\ honest = TRUE

\* lines 58-59 and 20: getRecordsInRange starts the generator.
GetRecordsInRangeStart ==
    /\ mpc = "scanning"
    /\ ppc = "idle"
    /\ matches' = <<>>
    /\ scanned' = 0
    /\ cursor' = NoCursor
    /\ ppc' = "request"
    /\ UNCHANGED <<collection, dvars, mvars, avars,
                   start, end, page, respCursor, pidx,
                   warnings, listLog, yielded, honest>>

\* lines 23-28: listRecords is called with the current cursor.
ListRequest ==
    /\ ppc = "request"
    /\ listLog' = Append(listLog, [cursor |-> cursor, answered |-> FALSE,
                                   len |-> 0, next |-> NoCursor])
    /\ ppc' = "await"
    /\ UNCHANGED <<collection, dvars, mvars, avars,
                   start, end, cursor, page, respCursor,
                   pidx, scanned, matches, warnings, yielded, honest>>

\* The service answers with the first k entries that follow the cursor and,
\* with withCursor, a cursor to what follows them.  A cursor stands for a
\* position in the storage order, which deletions do not shift: it is the
\* place of the last entry returned in the order the collection began with.
Offset(c) == IF c = NoCursor THEN 0 ELSE c
PlaceOf(key) == CHOOSE j \in 1..Len(initial) : initial[j] = key
After(off) == SelectSeq(collection, LAMBDA e : PlaceOf(e) > off)
HonoursProtocol(off, k, withCursor) ==
    /\ k = Min(PAGE_SIZE, Len(After(off)))
    /\ k < Len(After(off)) => withCursor
ListResponse(k, withCursor) ==
    /\ ppc = "await"
    /\ LET off == Offset(cursor)
       IN  /\ k <= Len(After(off))
           /\ page' = SubSeq(After(off), 1, k)
           /\ respCursor' = IF ~withCursor THEN NoCursor
                            ELSE IF k = 0 THEN off
                            ELSE PlaceOf(After(off)[k])
           /\ honest' = (honest /\ HonoursProtocol(off, k, withCursor))
           /\ listLog' = [listLog EXCEPT ![Len(listLog)] =
                             [cursor |-> cursor, answered |-> TRUE, len |-> k,
                              next |-> respCursor']]
    /\ pidx' = 0
    /\ ppc' = "yield"
    /\ UNCHANGED <<collection, dvars, mvars, avars,
                   start, end, cursor, scanned, matches,
                   warnings, yielded>>

\* Mutant of YieldEntry: the decoder's exception is not caught and ends the
\* scan.
YieldEntry_Abort ==
    /\ ppc = "yield"
    /\ pidx < Len(page)
    /\ LET rkey == page[pidx + 1]
           hit  == tidInRange(rkey, start, end)
       IN  /\ yielded' = Append(yielded, rkey)
           /\ scanned' = scanned + 1
           /\ matches' = IF hit = "yes"
                         THEN Append(matches, [rkey |-> rkey,
                                               createdAt |-> tidToDate(rkey).ms])
                         ELSE matches
           /\ ppc' = IF hit = "throws" THEN "raised" ELSE ppc
    /\ pidx' = pidx + 1
    /\ UNCHANGED <<collection, dvars, mvars, avars,
                   start, end, cursor, page,
                   respCursor, listLog, honest, warnings>>

\* lines 30-34 and 61-80: the generator yields the next entry of the page and
\* the loop body of getRecordsInRange handles it.
YieldEntry ==
    /\ ppc = "yield"
    /\ pidx < Len(page)
    /\ LET rkey == page[pidx + 1]
           hit  == tidInRange(rkey, start, end)
       IN  /\ yielded' = Append(yielded, rkey)
           /\ scanned' = scanned + 1
           /\ matches' = IF hit = "yes"
                         THEN Append(matches, [rkey |-> rkey,
                                               createdAt |-> tidToDate(rkey).ms])
                         ELSE matches
           /\ warnings' = IF hit = "throws" THEN Append(warnings, rkey) ELSE warnings
    /\ pidx' = pidx + 1
    /\ UNCHANGED <<collection, dvars, mvars, avars,
                   ppc, start, end, cursor, page,
                   respCursor, listLog, honest>>

\* Mutant of PageEnd: the cursor of the response is not taken over.
PageEnd_KeepsCursor ==
    /\ ppc = "yield"
    /\ pidx = Len(page)
    /\ cursor' = cursor
    /\ IF respCursor = NoCursor \/ Len(page) < PAGE_SIZE
       THEN /\ ppc' = "done"
            /\ matches' = SortByTime(matches)
       ELSE /\ ppc' = "request"
            /\ UNCHANGED matches
    /\ UNCHANGED <<collection, dvars, mvars, avars,
                   start, end, page, respCursor, pidx,
                   scanned, warnings, listLog, yielded, honest>>

\* Mutant of PageEnd: the loop ends only on a missing cursor.
PageEnd_CursorOnly ==
    /\ ppc = "yield"
    /\ pidx = Len(page)
    /\ cursor' = respCursor
    /\ IF respCursor = NoCursor
       THEN /\ ppc' = "done"
            /\ matches' = SortByTime(matches)
       ELSE /\ ppc' = "request"
            /\ UNCHANGED matches
    /\ UNCHANGED <<collection, dvars, mvars, avars,
                   start, end, page, respCursor, pidx,
                   scanned, warnings, listLog, yielded, honest>>

\* Mutant of PageEnd: a full page is taken for a short one (<= for <).
PageEnd_StopOnFull ==
    /\ ppc = "yield"
    /\ pidx = Len(page)
    /\ cursor' = respCursor
    /\ IF respCursor = NoCursor \/ Len(page) <= PAGE_SIZE
       THEN /\ ppc' = "done"
            /\ matches' = SortByTime(matches)
       ELSE /\ ppc' = "request"
            /\ UNCHANGED matches
    /\ UNCHANGED <<collection, dvars, mvars, avars,
                   start, end, page, respCursor, pidx,
                   scanned, warnings, listLog, yielded, honest>>

\* lines 36-39: after the page, the cursor is taken over and the loop ends on
\* a missing cursor or a short page; then lines 82-90: the matches are sorted
\* and returned.
PageEnd ==
    /\ ppc = "yield"
    /\ pidx = Len(page)
    /\ cursor' = respCursor
    /\ IF respCursor = NoCursor \/ Len(page) < PAGE_SIZE
       THEN /\ ppc' = "done"
            /\ matches' = SortByTime(matches)
       ELSE /\ ppc' = "request"
            /\ UNCHANGED matches
    /\ UNCHANGED <<collection, dvars, mvars, avars,
                   start, end, page, respCursor, pidx,
                   scanned, warnings, listLog, yielded, honest>>

\* ---------------------------------------------------------- deleteRecords
\* lines 121-128: the window starts at the call, the tallies at zero.
DeleteRecordsStart ==
    /\ mpc = "deleting"
    /\ dpc = "call"
    /\ deletionsThisWindow' = 0
    /\ windowStart' = now
    /\ deleted' = 0
    /\ failed' = 0
    /\ errors' = <<>>
    /\ i' = 0
    /\ dpc' = IF Len(records) > 0 THEN "enforce" ELSE "done"
    /\ UNCHANGED <<collection, records, attempt, now, progress, lastError, inflight,
                   log, quotaWaits, faults, pvars, mvars, avars>>

\* Mutant of EnforceRateLimit: the quota wait forgets the 1 s buffer.
EnforceRateLimit_NoBuffer ==
    /\ dpc = "enforce"
    /\ LET hourPassed == now - windowStart >= HOUR_MS
           count1     == IF hourPassed THEN 0 ELSE deletionsThisWindow
           start1     == IF hourPassed THEN now ELSE windowStart
           atLimit    == count1 >= MAX_DELETIONS_PER_HOUR
           waitMs     == HOUR_MS - (now - start1)
       IN  /\ now' = IF atLimit THEN now + waitMs ELSE now
           /\ deletionsThisWindow' = IF atLimit THEN 0 ELSE count1
           /\ windowStart' = IF atLimit THEN now' ELSE start1
           /\ quotaWaits' = IF atLimit
                            THEN Append(quotaWaits,
                                        [rec |-> i, from |-> now, until |-> now',
                                         window |-> start1])
                            ELSE quotaWaits
    /\ attempt' = 0
    /\ lastError' = "none"
    /\ dpc' = "send"
    /\ UNCHANGED <<collection, records, i, deleted, failed, errors, progress,
                   inflight, log, faults, pvars, mvars, avars>>

\* Mutant of EnforceRateLimit: the window is not restarted when an hour has
\* passed.
EnforceRateLimit_NoHourlyReset ==
    /\ dpc = "enforce"
    /\ LET count1     == deletionsThisWindow
           start1     == windowStart
           atLimit    == count1 >= MAX_DELETIONS_PER_HOUR
           waitMs     == HOUR_MS - (now - start1)
       IN  /\ now' = IF atLimit THEN now + Max(waitMs + WINDOW_BUFFER_MS, 0) ELSE now
           /\ deletionsThisWindow' = IF atLimit THEN 0 ELSE count1
           /\ windowStart' = IF atLimit THEN now' ELSE start1
           /\ quotaWaits' = IF atLimit
                            THEN Append(quotaWaits,
                                        [rec |-> i, from |-> now, until |-> now',
                                         window |-> start1])
                            ELSE quotaWaits
    /\ attempt' = 0
    /\ lastError' = "none"
    /\ dpc' = "send"
    /\ UNCHANGED <<collection, records, i, deleted, failed, errors, progress,
                   inflight, log, faults, pvars, mvars, avars>>

\* enforceRateLimit (lines 87-106), called at line 134; then deleteWithRetry
\* starts with attempt = 0.
EnforceRateLimit ==
    /\ dpc = "enforce"
    /\ LET hourPassed == now - windowStart >= HOUR_MS
           count1     == IF hourPassed THEN 0 ELSE deletionsThisWindow
           start1     == IF hourPassed THEN now ELSE windowStart
           atLimit    == count1 >= MAX_DELETIONS_PER_HOUR
           waitMs     == HOUR_MS - (now - start1)
       IN  /\ now' = IF atLimit THEN now + waitMs + WINDOW_BUFFER_MS ELSE now
           /\ deletionsThisWindow' = IF atLimit THEN 0 ELSE count1
           /\ windowStart' = IF atLimit THEN now' ELSE start1
           /\ quotaWaits' = IF atLimit
                            THEN Append(quotaWaits,
                                        [rec |-> i, from |-> now, until |-> now',
                                         window |-> start1])
                            ELSE quotaWaits
    /\ attempt' = 0
    /\ lastError' = "none"
    /\ dpc' = "send"
    /\ UNCHANGED <<collection, records, i, deleted, failed, errors, progress,
                   inflight, log, faults, pvars, mvars, avars>>

\* Mutant of SendDelete: the call is not awaited; the record is taken for
\* deleted and the loop moves on while the request is in flight.
SendDelete_NoAwait ==
    /\ dpc = "send"
    /\ attempt < MAX_RETRIES
    /\ inflight' = [rec |-> i, attempt |-> attempt, at |-> now]
    /\ deleted' = deleted + 1
    /\ deletionsThisWindow' = deletionsThisWindow + 1
    /\ progress' = Append(progress, [current |-> i + 1, total |-> Len(records),
                                     rkey |-> records[i + 1], success |-> TRUE])
    /\ now' = now + INTER_RECORD_DELAY_MS
    /\ i' = i + 1
    /\ dpc' = IF i + 1 < Len(records) THEN "enforce" ELSE "done"
    /\ UNCHANGED <<collection, records, attempt, windowStart, failed, errors,
                   lastError, log, quotaWaits, faults, pvars, mvars, avars>>

\* line 46: agent.com.atproto.repo.deleteRecord is called.
SendDelete ==
    /\ dpc = "send"
    /\ attempt < MAX_RETRIES
    /\ inflight' = [rec |-> i, attempt |-> attempt, at |-> now]
    /\ dpc' = "await"
    /\ UNCHANGED <<collection, records, i, attempt, now, deletionsThisWindow,
                   windowStart, deleted, failed, errors, progress, lastError,
                   log, quotaWaits, faults, pvars, mvars, avars>>

\* The response arrives lat ms after the request was sent.
Answered(kind, hint, lat) ==
    /\ dpc = "await"
    /\ lat > 0 => now + lat <= ClockStartMs + SlowHorizonMs
    /\ kind # "ok" => faults < MaxFaults
    /\ faults' = IF kind # "ok" THEN faults + 1 ELSE faults
    /\ log' = Append(log, [rec |-> inflight.rec, attempt |-> inflight.attempt,
                           at |-> inflight.at, kind |-> kind, hint |-> hint,
                           answered |-> now + lat, present |-> Present(records[i + 1])])
    /\ inflight' = NoRequest
    /\ UNCHANGED <<records, quotaWaits, pvars, mvars, avars>>

\* lines 138-148 and 166: the record is counted, reported, and the loop
\* moves on after the inter-record delay.
RecordSucceeded(t) ==
    /\ deleted' = deleted + 1
    /\ deletionsThisWindow' = deletionsThisWindow + 1
    /\ progress' = Append(progress, [current |-> i + 1, total |-> Len(records),
                                     rkey |-> records[i + 1], success |-> TRUE])
    /\ now' = t + INTER_RECORD_DELAY_MS
    /\ i' = i + 1
    /\ dpc' = IF i + 1 < Len(records) THEN "enforce" ELSE "done"
    /\ UNCHANGED <<failed, errors, windowStart>>

\* Mutant of RecordFailed: the error is rethrown instead of being tallied.
RecordFailed_Abort(t, kind) ==
    /\ now' = t
    /\ dpc' = "raised"
    /\ UNCHANGED <<i, failed, errors, progress, deleted, deletionsThisWindow,
                   windowStart>>

\* Mutant of RecordFailed: the inter-record delay is skipped after a failure.
RecordFailed_NoDelay(t, kind) ==
    /\ failed' = failed + 1
    /\ errors' = Append(errors, <<"Failed to delete", records[i + 1], ErrMessage(kind)>>)
    /\ progress' = Append(progress, [current |-> i + 1, total |-> Len(records),
                                     rkey |-> records[i + 1], success |-> FALSE])
    /\ now' = t
    /\ i' = i + 1
    /\ dpc' = IF i + 1 < Len(records) THEN "enforce" ELSE "done"
    /\ UNCHANGED <<deleted, deletionsThisWindow, windowStart>>

\* Mutant of RecordFailed: the failure is counted but its message is lost.
RecordFailed_NoMessage(t, kind) ==
    /\ failed' = failed + 1
    /\ errors' = errors
    /\ progress' = Append(progress, [current |-> i + 1, total |-> Len(records),
                                     rkey |-> records[i + 1], success |-> FALSE])
    /\ now' = t + INTER_RECORD_DELAY_MS
    /\ i' = i + 1
    /\ dpc' = IF i + 1 < Len(records) THEN "enforce" ELSE "done"
    /\ UNCHANGED <<deleted, deletionsThisWindow, windowStart>>

\* lines 81 and 149-163 and 166: deleteWithRetry throws, the record is
\* counted as failed with its message, reported, and the loop moves on.
RecordFailed(t, kind) ==
    /\ failed' = failed + 1
    /\ errors' = Append(errors, <<"Failed to delete", records[i + 1], ErrMessage(kind)>>)
    /\ progress' = Append(progress, [current |-> i + 1, total |-> Len(records),
                                     rkey |-> records[i + 1], success |-> FALSE])
    /\ now' = t + INTER_RECORD_DELAY_MS
    /\ i' = i + 1
    /\ dpc' = IF i + 1 < Len(records) THEN "enforce" ELSE "done"
    /\ UNCHANGED <<deleted, deletionsThisWindow, windowStart>>

\* Mutant of NextAttempt: a retry does not use up an attempt.
NextAttempt_NotCounted(t, kind) ==
    /\ attempt' = attempt
    /\ IF attempt + 1 < MAX_RETRIES
       THEN /\ dpc' = "send"
            /\ now' = t
            /\ UNCHANGED <<i, deleted, failed, errors, progress,
                           deletionsThisWindow, windowStart>>
       ELSE RecordFailed(t, kind)

\* lines 44, 79-81: the for loop's attempt++ and its test; t is the time
\* after the wait that preceded it.
NextAttempt(t, kind) ==
    /\ attempt' = attempt + 1
    /\ IF attempt + 1 < MAX_RETRIES
       THEN /\ dpc' = "send"
            /\ now' = t
            /\ UNCHANGED <<i, deleted, failed, errors, progress,
                           deletionsThisWindow, windowStart>>
       ELSE RecordFailed(t, kind)

\* lines 46-51: the call resolves; the service has removed the record.
RespondSuccess(lat) ==
    /\ Answered("ok", NoHint, lat)
    /\ collection' = Without(collection, records[i + 1])
    /\ RecordSucceeded(now + lat)
    /\ UNCHANGED <<attempt, lastError>>

\* Mutant of RespondRateLimited: a hint in the past is not raised to the
\* minimum wait.
RespondRateLimited_NoMinimum(hint, lat) ==
    /\ Answered("rateLimited", hint, lat)
    /\ lastError' = "rateLimited"
    /\ LET t      == now + lat
           waitMs == IF hint # NoHint THEN hint * 1000 - t ELSE DEFAULT_RATE_WAIT_MS
       IN  NextAttempt(t + Max(waitMs, 0), "rateLimited")
    /\ UNCHANGED collection

\* lines 56-65: HTTP 429, with or without a 'ratelimit-reset' hint (seconds
\* since epoch).
RespondRateLimited(hint, lat) ==
    /\ Answered("rateLimited", hint, lat)
    /\ lastError' = "rateLimited"
    /\ LET t      == now + lat
           waitMs == IF hint # NoHint THEN hint * 1000 - t ELSE DEFAULT_RATE_WAIT_MS
       IN  NextAttempt(t + Max(waitMs, MIN_RATE_WAIT_MS), "rateLimited")
    /\ UNCHANGED collection

\* Mutant of RespondNotFound: 'not found' fails the record at once.
RespondNotFound_CountsFailed(lat) ==
    /\ Answered("notFound", NoHint, lat)
    /\ lastError' = "notFound"
    /\ RecordFailed(now + lat, "notFound")
    /\ UNCHANGED <<collection, attempt>>

\* Mutant of RespondNotFound: 'not found' is handled like any other error.
RespondNotFound_AsError(lat) ==
    /\ Answered("notFound", NoHint, lat)
    /\ lastError' = "notFound"
    /\ LET t     == now + lat
           delay == BASE_DELAY_MS * Pow2(attempt)
       IN  NextAttempt(IF attempt < MAX_RETRIES - 1 THEN t + delay ELSE t, "notFound")
    /\ UNCHANGED collection

\* lines 67-70: status 400 with 'not found' in the message.
RespondNotFound(lat) ==
    /\ Answered("notFound", NoHint, lat)
    /\ lastError' = "notFound"
    /\ RecordSucceeded(now + lat)
    /\ UNCHANGED <<collection, attempt>>

\* Mutant of RespondOtherError: the backoff does not grow with the attempt.
RespondOtherError_FixedDelay(lat) ==
    /\ Answered("other", NoHint, lat)
    /\ lastError' = "other"
    /\ LET t     == now + lat
           delay == BASE_DELAY_MS
       IN  NextAttempt(IF attempt < MAX_RETRIES - 1 THEN t + delay ELSE t, "other")
    /\ UNCHANGED collection

\* lines 72-77: any other error; backoff unless this was the last attempt.
RespondOtherError(lat) ==
    /\ Answered("other", NoHint, lat)
    /\ lastError' = "other"
    /\ LET t     == now + lat
           delay == BASE_DELAY_MS * Pow2(attempt)
       IN  NextAttempt(IF attempt < MAX_RETRIES - 1 THEN t + delay ELSE t, "other")
    /\ UNCHANGED collection

\* ------------------------------------------------------- index.ts: main
\* The confirmation prompt has not been answered.
NoAnswer == <<"-">>

Exit(reason) ==
    /\ mpc' = "exit"
    /\ exitReason' = reason

\* answer.toLowerCase(), an answer being a sequence of characters
LowerCased(chars) == [j \in 1..Len(chars) |-> ToLowerCase(chars[j])]

\* Mutant of ParseArgsAndEnv: the order of the two bounds is not checked.
ParseArgsAndEnv_NoRangeCheck ==
    /\ mpc = "args"
    /\ IF ~credentials THEN Exit("noCredentials")
       ELSE mpc' = "login" /\ UNCHANGED exitReason
    /\ UNCHANGED <<collection, dvars, pvars, run, dryRun, credentials, previewShown,
                   answer, initial, avars, pending>>

\* parseArgs (lines 17-56) and the credentials check (lines 76-85).
ParseArgsAndEnv ==
    /\ mpc = "args"
    /\ IF start > end THEN Exit("badRange")
       ELSE IF ~credentials THEN Exit("noCredentials")
       ELSE mpc' = "login" /\ UNCHANGED exitReason
    /\ UNCHANGED <<collection, dvars, pvars, run, dryRun, credentials, previewShown,
                   answer, initial, avars, pending>>

\* lines 95-107: agent.login resolves (ok) or throws.
Login(ok) ==
    /\ mpc = "login"
    /\ IF ok THEN mpc' = "scanning" /\ UNCHANGED exitReason
       ELSE Exit("authFailed")
    /\ UNCHANGED <<collection, dvars, pvars, run, dryRun, credentials, previewShown,
                   answer, initial, avars, pending>>

\* Mutant of MainScanned: the dry-run flag is not looked at.
MainScanned_IgnoresDryRun ==
    /\ mpc = "scanning"
    /\ ppc = "done"
    /\ records' = [j \in 1..Len(matches) |-> matches[j].rkey]
    /\ IF Len(matches) = 0
       THEN Exit("noRecords") /\ UNCHANGED previewShown
       ELSE /\ previewShown' = TRUE
            /\ mpc' = "confirm" /\ UNCHANGED exitReason
    /\ UNCHANGED <<collection, dpc, i, attempt, now, deletionsThisWindow,
                   windowStart, deleted, failed, errors, progress, lastError,
                   inflight, log, quotaWaits, faults, pvars, run, dryRun,
                   credentials, answer, initial, avars, pending>>

\* lines 115-154: getRecordsInRange has returned; nothing found ends the
\* run, otherwise the preview is printed and a dry run ends here.
MainScanned ==
    /\ mpc = "scanning"
    /\ ppc = "done"
    /\ records' = [j \in 1..Len(matches) |-> matches[j].rkey]
    /\ IF Len(matches) = 0
       THEN Exit("noRecords") /\ UNCHANGED previewShown
       ELSE /\ previewShown' = TRUE
            /\ IF dryRun THEN Exit("dryRun")
               ELSE mpc' = "confirm" /\ UNCHANGED exitReason
    /\ UNCHANGED <<collection, dpc, i, attempt, now, deletionsThisWindow,
                   windowStart, deleted, failed, errors, progress, lastError,
                   inflight, log, quotaWaits, faults, pvars, run, dryRun,
                   credentials, answer, initial, avars, pending>>

\* confirm (lines 58-70) and lines 157-164: only 'yes', in any case, goes on.
Confirm(ans) ==
    /\ mpc = "confirm"
    /\ answer' = ans
    /\ IF LowerCased(ans) = <<"y", "e", "s">>
       THEN mpc' = "deleting" /\ UNCHANGED exitReason
       ELSE Exit("aborted")
    /\ UNCHANGED <<collection, dvars, pvars, run, dryRun, credentials, previewShown,
                   initial, avars, pending>>

\* lines 170-195: deleteRecords has returned; the exit code tells of failures.
MainDeleted ==
    /\ mpc = "deleting"
    /\ dpc = "done"
    /\ Exit(IF failed > 0 THEN "failed" ELSE "completed")
    /\ UNCHANGED <<collection, dvars, pvars, run, dryRun, credentials, previewShown,
                   answer, initial, avars, pending>>

\* The process is killed during the deletion and started again with the same
\* arguments.  Nothing of the process survives; a delete request that was
\* in flight may still reach the service later.
Interrupt ==
    /\ mpc = "deleting"
    /\ dpc \in {"enforce", "send", "await"}
    /\ run < MaxRuns
    /\ run' = run + 1
    /\ pending' = IF dpc = "await" THEN pending \cup {records[i + 1]} ELSE pending
    /\ mpc' = "args"
    /\ previewShown' = FALSE
    /\ answer' = NoAnswer
    /\ exitReason' = "running"
    /\ records' = <<>>
    /\ dpc' = "call"
    /\ i' = 0
    /\ attempt' = 0
    /\ deletionsThisWindow' = 0
    /\ windowStart' = 0
    /\ deleted' = 0
    /\ failed' = 0
    /\ errors' = <<>>
    /\ progress' = <<>>
    /\ lastError' = "none"
    /\ inflight' = NoRequest
    /\ log' = <<>>
    /\ quotaWaits' = <<>>
    /\ ppc' = "idle"
    /\ cursor' = NoCursor
    /\ page' = <<>>
    /\ respCursor' = NoCursor
    /\ pidx' = 0
    /\ scanned' = 0
    /\ matches' = <<>>
    /\ warnings' = <<>>
    /\ listLog' = <<>>
    /\ yielded' = <<>>
    /\ honest' = TRUE
    /\ UNCHANGED <<collection, now, faults, start, end, dryRun, credentials, initial,
                   avars>>

\* A delete request of a killed process reaches the service.
LateDelete(key) ==
    /\ key \in pending
    /\ collection' = Without(collection, key)
    /\ pending' = pending \ {key}
    /\ UNCHANGED <<dvars, pvars, mpc, run, dryRun, credentials, previewShown,
                   answer, exitReason, initial, avars>>

\* ------------------------------------------------------------ analyze.ts
\* let gap = 45 (seconds)
DEFAULT_GAP_S == 45

\* records.sort((a, b) => a.timestamp.getTime() - b.timestamp.getTime())
RECURSIVE InsertTimestamp(_, _)
InsertTimestamp(sorted, t) ==
    IF sorted = <<>> THEN <<t>>
    ELSE IF Head(sorted) <= t THEN <<Head(sorted)>> \o InsertTimestamp(Tail(sorted), t)
    ELSE <<t>> \o sorted
RECURSIVE SortTimestamps(_)
SortTimestamps(s) ==
    IF s = <<>> THEN <<>>
    ELSE InsertTimestamp(SortTimestamps(SubSeq(s, 1, Len(s) - 1)), s[Len(s)])

\* The analyzer is not running.
AnalyzerIdle ==
    /\ apc = "idle"
    /\ gap = DEFAULT_GAP_S
    /\ minBlock = 1
    /\ fetched = <<>>
    /\ scanIndex = 0
    /\ currentBlock = <<>>
    /\ blockIndex = 1
    /\ foundAny = FALSE
    /\ reported = <<>>

\* lines 109-121: nothing fetched ends the run; otherwise the records are
\* sorted by time and the scan starts with the first one as current block.
AnalyzeStart ==
    /\ apc = "fetched"
    /\ IF Len(fetched) = 0
       THEN /\ apc' = "exit"
            /\ UNCHANGED <<fetched, currentBlock, scanIndex>>
       ELSE /\ fetched' = SortTimestamps(fetched)
            /\ currentBlock' = <<fetched'[1]>>
            /\ scanIndex' = 1
            /\ apc' = "scan"
    /\ blockIndex' = 1
    /\ foundAny' = FALSE
    /\ UNCHANGED <<collection, dvars, pvars, mvars, gap, minBlock, reported>>

\* reportBlock(currentBlock, blockIndex++); foundAny = true
ReportBlock ==
    /\ reported' = Append(reported, [index |-> blockIndex, block |-> currentBlock])
    /\ blockIndex' = blockIndex + 1
    /\ foundAny' = TRUE

\* Mutant of ScanStep: a gap equal to the threshold ends the block (< for <=).
ScanStep_StrictGap ==
    /\ apc = "scan"
    /\ scanIndex < Len(fetched)
    /\ LET delta == fetched[scanIndex + 1] - fetched[scanIndex]
       IN  IF delta < gap * 1000
           THEN /\ currentBlock' = Append(currentBlock, fetched[scanIndex + 1])
                /\ UNCHANGED <<reported, blockIndex, foundAny>>
           ELSE /\ IF Len(currentBlock) >= minBlock
                   THEN ReportBlock
                   ELSE UNCHANGED <<reported, blockIndex, foundAny>>
                /\ currentBlock' = <<fetched[scanIndex + 1]>>
    /\ scanIndex' = scanIndex + 1
    /\ UNCHANGED <<collection, dvars, pvars, mvars, apc, gap, minBlock, fetched>>

\* lines 123-135: one iteration of the block scan (i is scanIndex, 0-based).
ScanStep ==
    /\ apc = "scan"
    /\ scanIndex < Len(fetched)
    /\ LET delta == fetched[scanIndex + 1] - fetched[scanIndex]
       IN  IF delta <= gap * 1000
           THEN /\ currentBlock' = Append(currentBlock, fetched[scanIndex + 1])
                /\ UNCHANGED <<reported, blockIndex, foundAny>>
           ELSE /\ IF Len(currentBlock) >= minBlock
                   THEN ReportBlock
                   ELSE UNCHANGED <<reported, blockIndex, foundAny>>
                /\ currentBlock' = <<fetched[scanIndex + 1]>>
    /\ scanIndex' = scanIndex + 1
    /\ UNCHANGED <<collection, dvars, pvars, mvars, apc, gap, minBlock, fetched>>

\* lines 137-145: after the loop the block in progress is checked.
FinalBlock ==
    /\ apc = "scan"
    /\ scanIndex >= Len(fetched)
    /\ IF Len(currentBlock) >= minBlock
       THEN ReportBlock
       ELSE UNCHANGED <<reported, blockIndex, foundAny>>
    /\ apc' = "done"
    /\ UNCHANGED <<collection, dvars, pvars, mvars, gap, minBlock, fetched, scanIndex,
                   currentBlock>>

\* ------------------------------------------------ the deleter on its own
Latencies == {0, SlowLatencyMs}
Hints(t) == {NoHint, 0, (t \div 1000) + HintAheadS}

RECURSIVE SeqsUpTo(_, _)
SeqsUpTo(S, n) ==
    IF n = 0 THEN {<<>>}
    ELSE LET shorter == SeqsUpTo(S, n - 1)
         IN  shorter \cup {Append(s, x) : s \in {q \in shorter : Len(q) = n - 1}, x \in S}

\* Record keys are opaque to the deleter: lists are taken up to renaming,
\* repeated keys included (k1; k1,k1; k1,k2; k1,k1,k2; k1,k2,k2; ...).
RecordLists == {s \in SeqsUpTo(Keys, MaxRecords) :
                  /\ Len(s) > 0 => s[1] = "k1"
                  /\ \A j \in 1..(Len(s) - 1) : s[j] = "k2" => s[j + 1] = "k2"}

\* Before deleteRecords is called.
DeleterIdle ==
    /\ dpc = "call"
    /\ i = 0
    /\ attempt = 0
    /\ now = ClockStartMs
    /\ deletionsThisWindow = 0
    /\ windowStart = 0
    /\ deleted = 0
    /\ failed = 0
    /\ errors = <<>>
    /\ progress = <<>>
    /\ lastError = "none"
    /\ inflight = NoRequest
    /\ log = <<>>
    /\ quotaWaits = <<>>
    /\ faults = 0

\* A process that is at the given position of main, in live mode.
MainAt(pc) ==
    /\ mpc = pc
    /\ run = 1
    /\ dryRun = FALSE
    /\ credentials = TRUE
    /\ previewShown = FALSE
    /\ answer = NoAnswer
    /\ exitReason = "running"
    /\ initial = collection
    /\ pending = {}
    /\ start = RangeStartMs
    /\ end = RangeEndMs

DelInit ==
    /\ records \in RecordLists
    /\ collection \in {<<>>, <<"k1">>, <<"k1", "k2">>}
    /\ Range(collection) = Range(records)
    /\ MainAt("deleting")
    /\ DeleterIdle
    /\ PagerIdle
    /\ AnalyzerIdle

DelNext ==
    \/ DeleteRecordsStart
    \/ EnforceRateLimit
    \/ SendDelete
    \/ \E lat \in Latencies : RespondSuccess(lat)
    \/ \E lat \in Latencies : \E hint \in Hints(now + lat) : RespondRateLimited(hint, lat)
    \/ \E lat \in Latencies : RespondNotFound(lat)
    \/ \E lat \in Latencies : RespondOtherError(lat)

SpecDel == DelInit /\ [][DelNext]_vars

\* ------------------------------------------- the deleter's tallies alone
\* The service answers at once and may fail TallyFaults times in a run (the
\* count of faults starts that much below its limit), so that more than one
\* record can fail.
TallyInit ==
    /\ records \in RecordLists
    /\ collection \in {<<>>, <<"k1">>, <<"k1", "k2">>}
    /\ Range(collection) = Range(records)
    /\ MainAt("deleting")
    /\ dpc = "call"
    /\ i = 0
    /\ attempt = 0
    /\ now = ClockStartMs
    /\ deletionsThisWindow = 0
    /\ windowStart = 0
    /\ deleted = 0
    /\ failed = 0
    /\ errors = <<>>
    /\ progress = <<>>
    /\ lastError = "none"
    /\ inflight = NoRequest
    /\ log = <<>>
    /\ quotaWaits = <<>>
    /\ faults = MaxFaults - TallyFaults
    /\ PagerIdle
    /\ AnalyzerIdle

TallyNext ==
    \/ DeleteRecordsStart
    \/ EnforceRateLimit
    \/ SendDelete
    \/ RespondSuccess(0)
    \/ RespondRateLimited(NoHint, 0)
    \/ RespondNotFound(0)
    \/ RespondOtherError(0)

SpecTally == TallyInit /\ [][TallyNext]_vars

\* Every awaited promise settles: the service answers each request and each
\* timer fires, so a step that can be taken is taken in the end.
SpecTallyFair == TallyInit /\ [][TallyNext]_vars /\ WF_vars(TallyNext)

\* --------------------------------------------- the pager and the selection
\* The identifier whose first 11 characters encode v microseconds.
RECURSIVE EncodeDigits(_, _)
EncodeDigits(v, n) ==
    IF n = 0 THEN <<>>
    ELSE EncodeDigits(v \div 32, n - 1) \o <<B32_CHARS[(v % 32) + 1]>>
Tid(v, suffix) == EncodeDigits(v, 11) \o suffix

\* An identifier with a character outside the alphabet ("1").
BadTid == <<"2", "2", "2", "2", "2", "2", "2", "2", "1", "2", "2", "2", "2">>

\* Identifiers around the bounds of the range: one microsecond before the
\* start bound, the start bound, the end bound, one microsecond after the end
\* bound, one millisecond after it, and a malformed one.
TidPool == {Tid(RangeStartMs * 1000 - 1, <<"2", "2">>),
            Tid(RangeStartMs * 1000, <<"2", "2">>),
            Tid(RangeEndMs * 1000, <<"2", "2">>),
            Tid(RangeEndMs * 1000 + 1, <<"2", "2">>),
            Tid((RangeEndMs + 1) * 1000, <<"2", "2">>),
            BadTid}

\* Collections: record keys are unique.
Collections == {c \in SeqsUpTo(TidPool, MaxCollection) :
                  \A a, b \in 1..Len(c) : a # b => c[a] # c[b]}

PagerInit ==
    /\ collection \in Collections
    /\ MainAt("scanning")
    /\ records = <<>>
    /\ DeleterIdle
    /\ PagerIdle
    /\ AnalyzerIdle

PagerNext ==
    \/ GetRecordsInRangeStart
    \/ ListRequest
    \/ \E k \in 0..PAGE_SIZE : \E withCursor \in BOOLEAN : ListResponse(k, withCursor)
    \/ YieldEntry
    \/ PageEnd

SpecPager == PagerInit /\ [][PagerNext]_vars

\* ------------------------------------------------- the codec on its inputs
\* The identifier with its letters in upper case.
UpperOf == [c \in {LowerCase[j] : j \in 1..Len(LowerCase)} |->
               UpperCase[CHOOSE j \in 1..Len(LowerCase) : LowerCase[j] = c]]
UpperCased(tid) == [j \in 1..Len(tid) |-> IF tid[j] \in DOMAIN UpperOf
                                           THEN UpperOf[tid[j]] ELSE tid[j]]
\* The identifier with the character at place j replaced by c.
WithCharAt(tid, j, c) == [tid EXCEPT ![j] = c]

\* Identifiers the decoder is tried on: epoch; 999 us (the same millisecond
\* as epoch); 1000 us in upper case; 1999 us with two different suffixes; the
\* largest timestamp below 2^31 us; one character short, one too long; a
\* character outside the alphabet among the first 11, in the suffix's first
\* and in its last place.
TidInputs == {Tid(0, <<"2", "2">>),
              Tid(999, <<"2", "2">>),
              UpperCased(Tid(1000, <<"2", "2">>)),
              Tid(1999, <<"2", "2">>),
              Tid(1999, <<"z", "j">>),
              Tid(TidLargestUs, <<"2", "2">>),
              SubSeq(Tid(0, <<"2", "2">>), 1, 12),
              Tid(0, <<"2", "2">>) \o <<"2">>,
              BadTid,
              WithCharAt(Tid(1000, <<"2", "2">>), 12, "1"),
              WithCharAt(Tid(1000, <<"2", "2">>), 13, "!")}

TidCollections == {c \in SeqsUpTo(TidInputs, MaxTidInputs) :
                     \A a, b \in 1..Len(c) : a # b => c[a] # c[b]}

\* A scan whose range takes in every identifier that decodes.
TidInit ==
    /\ collection \in TidCollections
    /\ mpc = "scanning"
    /\ run = 1
    /\ dryRun = FALSE
    /\ credentials = TRUE
    /\ previewShown = FALSE
    /\ answer = NoAnswer
    /\ exitReason = "running"
    /\ initial = collection
    /\ pending = {}
    /\ start = 0
    /\ end = TidRangeEndMs
    /\ records = <<>>
    /\ DeleterIdle
    /\ PagerIdle
    /\ AnalyzerIdle

TidNext ==
    \/ GetRecordsInRangeStart
    \/ ListRequest
    \/ \E k \in 0..PAGE_SIZE : \E withCursor \in BOOLEAN :
           /\ HonoursProtocol(Offset(cursor), k, withCursor)
           /\ ListResponse(k, withCursor)
    \/ YieldEntry
    \/ PageEnd

SpecTid == TidInit /\ [][TidNext]_vars

\* ------------------------------------------------ the analyzer's block scan
\* Decoded times of the fetched records, in ms: 10 s apart, then a gap equal
\* to the threshold, a shorter one, 5 s apart, then a gap 1 ms above the
\* threshold.
AnalyzeTimes == {0, 10000, 20000, 65000, 90000, 95000, 100000, 145001}
\* The times of a set, oldest first and newest first.
RECURSIVE Ascending(_)
Ascending(S) ==
    IF S = {} THEN <<>>
    ELSE LET least == CHOOSE t \in S : \A u \in S : t <= u
         IN  <<least>> \o Ascending(S \ {least})
Reversed(s) == [j \in 1..Len(s) |-> s[Len(s) + 1 - j]]

AnalyzeInit ==
    /\ collection = <<>>
    /\ MainAt("exit")
    /\ records = <<>>
    /\ DeleterIdle
    /\ PagerIdle
    /\ apc = "fetched"
    /\ gap = DEFAULT_GAP_S
    /\ minBlock \in 1..MaxMinBlock
    /\ \E S \in SUBSET AnalyzeTimes : fetched \in {Ascending(S), Reversed(Ascending(S))}
    /\ scanIndex = 0
    /\ currentBlock = <<>>
    /\ blockIndex = 1
    /\ foundAny = FALSE
    /\ reported = <<>>

AnalyzeNext ==
    \/ AnalyzeStart
    \/ ScanStep
    \/ FinalBlock

SpecAnalyze == AnalyzeInit /\ [][AnalyzeNext]_vars

\* ------------------------------------------------------- the delete tool
\* The whole tool against a service that lists honestly, deletes what it is
\* asked to delete, answers not-found for what is absent, and may answer a
\* delete with a transient error.
ToolPool == {Tid(RangeStartMs * 1000 - 1, <<"2", "2">>),
             Tid(RangeStartMs * 1000, <<"2", "2">>),
             Tid(RangeEndMs * 1000 + 1, <<"2", "2">>),
             BadTid}
ToolCollections == {c \in Collections : Range(c) \subseteq ToolPool}
Answers == {<<"Y", "e", "s">>, <<"y">>, <<"n", "o">>, <<>>}

ToolInit ==
    /\ collection \in ToolCollections
    /\ mpc = "args"
    /\ run = 1
    /\ dryRun \in BOOLEAN
    /\ credentials \in BOOLEAN
    /\ previewShown = FALSE
    /\ answer = NoAnswer
    /\ exitReason = "running"
    /\ initial = collection
    /\ pending = {}
    /\ \E range \in {<<RangeStartMs, RangeEndMs>>, <<RangeEndMs, RangeStartMs>>} :
           start = range[1] /\ end = range[2]
    /\ records = <<>>
    /\ DeleterIdle
    /\ PagerIdle
    /\ AnalyzerIdle

ToolNext ==
    \/ ParseArgsAndEnv
    \/ \E ok \in BOOLEAN : Login(ok)
    \/ GetRecordsInRangeStart
    \/ ListRequest
    \/ \E k \in 0..PAGE_SIZE : \E withCursor \in BOOLEAN :
           /\ HonoursProtocol(Offset(cursor), k, withCursor)
           /\ ListResponse(k, withCursor)
    \/ YieldEntry
    \/ PageEnd
    \/ MainScanned
    \/ \E ans \in Answers : Confirm(ans)
    \/ DeleteRecordsStart
    \/ EnforceRateLimit
    \/ SendDelete
    \/ dpc = "await" /\ Present(records[i + 1]) /\ RespondSuccess(0)
    \/ dpc = "await" /\ ~Present(records[i + 1]) /\ RespondNotFound(0)
    \/ RespondOtherError(0)
    \/ MainDeleted
    \/ Interrupt
    \/ \E key \in pending : LateDelete(key)

SpecTool == ToolInit /\ [][ToolNext]_vars

\* ------------------------------------------------------- derived history
\* The answered requests for record r (0-based), in order.
LogOf(r) == SelectSeq(log, LAMBDA e : e.rec = r)
CountKind(r, kind) == Len(SelectSeq(log, LAMBDA e : e.rec = r /\ e.kind = kind))
\* Send times of every delete request made so far.
SentTimes == [j \in 1..Len(log) |-> log[j].at]
             \o (IF inflight = NoRequest THEN <<>> ELSE <<inflight.at>>)
\* Every response so far was a success with no latency.
AllInstant == \A j \in 1..Len(log) : log[j].kind = "ok" /\ log[j].answered = log[j].at
SentFor(r) == (\E j \in 1..Len(log) : log[j].rec = r) \/ inflight.rec = r

\* ------------------------------------------------------------------ C1
\* C1 (as claimed): a 429 response is never counted against the retry
\* ceiling nor the failure tally: a record is counted as failed only after
\* MAX_RETRIES responses that were errors other than 429.
C1_RateLimitNotCounted ==
    \A j \in 1..Len(progress) :
        ~progress[j].success => CountKind(j - 1, "other") = MAX_RETRIES

\* ------------------------------------------------------------------ C2
\* C2: with cap N and N+1 records that are all deleted at once, the first N
\* requests are sent without a quota wait, the request for record N+1 is not
\* sent before window start + one hour + the 1 s buffer, and the window
\* count is 0 after that wait.
C2_QuotaDelay ==
    (AllInstant /\ Len(records) = MAX_DELETIONS_PER_HOUR + 1) =>
        /\ \A w \in 1..Len(quotaWaits) : quotaWaits[w].rec >= MAX_DELETIONS_PER_HOUR
        /\ \A j \in 1..Len(SentTimes) :
               j > MAX_DELETIONS_PER_HOUR =>
                   /\ Len(quotaWaits) = 1
                   /\ quotaWaits[1].window = ClockStartMs
                   /\ SentTimes[j] >= quotaWaits[1].window + HOUR_MS + WINDOW_BUFFER_MS
        /\ (i = MAX_DELETIONS_PER_HOUR /\ dpc \in {"send", "await"}) =>
               /\ deletionsThisWindow = 0
               /\ windowStart = now

C2_Witness ==
    /\ AllInstant
    /\ Len(log) = MAX_DELETIONS_PER_HOUR + 1
    /\ Len(quotaWaits) = 1
    /\ dpc = "done"

\* ------------------------------------------------------------------ C3
\* C3 (as claimed): in every interval of one hour no more delete requests
\* are sent than the service's hard limit.
C3_UnderHardLimit ==
    \A j \in 1..Len(SentTimes) :
        Cardinality({k \in j..Len(SentTimes) : SentTimes[k] < SentTimes[j] + HOUR_MS})
            <= HARD_LIMIT_PER_HOUR

\* ------------------------------------------------------------------ C4
\* C4: a 'not found' response counts the record as deleted at once: one more
\* in deleted, none in failed, no error message, a progress report of
\* success, and the loop moves to the next record without another request.
C4_NotFoundIsSuccess ==
    [][(Len(log') = Len(log) + 1 /\ log'[Len(log')].kind = "notFound") =>
          /\ deleted' = deleted + 1
          /\ failed' = failed
          /\ errors' = errors
          /\ progress' = Append(progress, [current |-> i + 1, total |-> Len(records),
                                           rkey |-> records[i + 1], success |-> TRUE])
          /\ i' = i + 1
          /\ dpc' \in {"enforce", "done"}]_vars

\* The same key twice in succession: removed by the first call, not found
\* by the second, both reported as success.
C4_Witness ==
    /\ Len(records) >= 2 /\ records[1] = records[2]
    /\ Len(log) >= 2
    /\ log[1].rec = 0 /\ log[1].kind = "ok" /\ log[1].present
    /\ log[2].rec = 1 /\ log[2].kind = "notFound" /\ ~log[2].present
    /\ Len(progress) >= 2 /\ progress[1].success /\ progress[2].success
    /\ deleted = 2 /\ failed = 0 /\ errors = <<>>

\* ------------------------------------------------------------------ C6
\* C6: a failed record never aborts the batch: deleteRecords never raises,
\* it returns only after the last record, and by then at least one delete
\* request has been sent for every record of the list.
C6_BatchNeverAborts ==
    /\ dpc \in {"call", "enforce", "send", "await", "done"}
    /\ dpc = "done" => i = Len(records)
    /\ \A r \in 0..(i - 1) : SentFor(r)
    /\ dpc \in {"enforce", "send", "await"} => i < Len(records)

C6_Witness ==
    /\ dpc = "done"
    /\ Len(records) >= 2
    /\ ~progress[1].success
    /\ \A r \in 0..(Len(records) - 1) : SentFor(r)

\* ------------------------------------------------------------------ C8
\* The number of entries received in the answered list responses.
RECURSIVE ReceivedUpTo(_)
ReceivedUpTo(j) == IF j = 0 THEN 0 ELSE ReceivedUpTo(j - 1) + listLog[j].len
StopsPager(r) == r.next = NoCursor \/ r.len < PAGE_SIZE

\* C8: the pager stops on the first response with no cursor or with a short
\* page: every response that was followed by another list request was a full
\* page with a cursor, and when the generator has ended every entry received,
\* those of the last page included, has been yielded.
C8_StopsOnFirstShortOrCursorless ==
    /\ \A j \in 1..(Len(listLog) - 1) : ~StopsPager(listLog[j])
    /\ (ppc = "request" /\ listLog # <<>>) => ~StopsPager(listLog[Len(listLog)])
    /\ ppc = "done" =>
           /\ StopsPager(listLog[Len(listLog)])
           /\ yielded = SubSeq(collection, 1, ReceivedUpTo(Len(listLog)))

\* A short, non-empty page that carries a cursor while more entries remain.
C8_Witness ==
    /\ ppc = "done"
    /\ LET last == listLog[Len(listLog)]
       IN  /\ last.len >= 1 /\ last.len < PAGE_SIZE
           /\ last.next # NoCursor
           /\ last.next < Len(collection)
    /\ Len(yielded) = ReceivedUpTo(Len(listLog))

\* ------------------------------------------------------------------ C9
\* Some step of the pager is possible: the guards of GetRecordsInRangeStart,
\* ListRequest, ListResponse (an empty page can always be answered),
\* YieldEntry and PageEnd.
PagerCanStep ==
    \/ mpc = "scanning" /\ ppc = "idle"
    \/ ppc = "request"
    \/ ppc = "await" /\ 0 <= Len(After(Offset(cursor)))
    \/ ppc = "yield" /\ pidx < Len(page)
    \/ ppc = "yield" /\ pidx = Len(page)

\* C9: against a service that honours the protocol the pager terminates
\* (it never makes more than n div PAGE_SIZE + 1 requests and is never stuck
\* before its end) and has then yielded each of the n records once, in
\* storage order.
C9_YieldsAllOnce ==
    /\ honest => Len(listLog) <= (Len(collection) \div PAGE_SIZE) + 1
    /\ honest => yielded = SubSeq(collection, 1, Len(yielded))
    /\ (honest /\ ppc = "done") => (yielded = collection /\ scanned = Len(collection))
    /\ ppc # "done" => PagerCanStep

\* n an exact multiple of the page size, the last full page with a cursor.
C9_Witness ==
    /\ honest
    /\ ppc = "done"
    /\ Len(collection) = 2 * PAGE_SIZE
    /\ Len(listLog) = 3
    /\ yielded = collection

\* ----------------------------------------------------------------- C10
\* The microseconds an identifier encodes.
TimestampUs(tid) == Accumulate(0, SubSeq(tid, 1, 11))
Selected(rkey) == \E m \in 1..Len(matches) : matches[m].rkey = rkey

\* C10 (as claimed): a scanned record at exactly the start or the end bound
\* is selected; one a microsecond before the start bound or a microsecond
\* after the end bound is not.
C10_InclusiveExact ==
    \A j \in 1..Len(yielded) :
        LET us == TimestampUs(yielded[j])
        IN  tidToDate(yielded[j]).ok =>
                /\ (us = start * 1000 \/ us = end * 1000) => Selected(yielded[j])
                /\ (us = start * 1000 - 1 \/ us = end * 1000 + 1) => ~Selected(yielded[j])

\* C10 (amended): a scanned record at exactly the start or the end bound is
\* selected and one a microsecond before the start bound is not; a record
\* up to 999 microseconds after the end bound is selected, its decoded time
\* being truncated to the end bound's millisecond, and one a full
\* millisecond after the end bound is not.
C10_InclusiveTruncated ==
    \A j \in 1..Len(yielded) :
        LET us == TimestampUs(yielded[j])
        IN  tidToDate(yielded[j]).ok =>
                /\ (us = start * 1000 \/ us = end * 1000) => Selected(yielded[j])
                /\ us = start * 1000 - 1 => ~Selected(yielded[j])
                /\ (us > end * 1000 /\ us <= end * 1000 + 999) => Selected(yielded[j])
                /\ us = (end + 1) * 1000 => ~Selected(yielded[j])

C10_Witness ==
    /\ ppc = "done"
    /\ \E a, b, c, d \in 1..Len(yielded) :
          /\ TimestampUs(yielded[a]) = start * 1000 /\ Selected(yielded[a])
          /\ TimestampUs(yielded[b]) = end * 1000 + 1 /\ Selected(yielded[b])
          /\ TimestampUs(yielded[c]) = start * 1000 - 1 /\ ~Selected(yielded[c])
          /\ TimestampUs(yielded[d]) = (end + 1) * 1000 /\ ~Selected(yielded[d])

\* ------------------------------------------------------------------ C5
\* The record's decoded time lies in [start, end].
DecodedInRange(key) == Within(tidToDate(key), start, end) = "yes"
NoTransientError == \A j \in 1..Len(log) : log[j].kind \in {"ok", "notFound"}

\* C5: no run ever deletes a record whose decoded time is outside the range
\* (or that has none), and when a run started after an interruption ends
\* without a transient error it reports failed = 0 and no record of the
\* range is left in the collection.
C5_RestartWithoutDoubleEffect ==
    /\ \A key \in Range(initial) : ~Present(key) => DecodedInRange(key)
    /\ (/\ run >= 2
        /\ mpc = "exit"
        /\ exitReason \in {"completed", "failed", "noRecords"}
        /\ NoTransientError)
       => /\ failed = 0
          /\ exitReason # "failed"
          /\ \A key \in Range(initial) : DecodedInRange(key) => ~Present(key)

\* The second run ends after a delete of the killed first run reached the
\* service behind its back: that record answers not-found.
C5_Witness ==
    /\ run = 2
    /\ mpc = "exit"
    /\ exitReason = "completed"
    /\ \E j \in 1..Len(log) : log[j].kind = "notFound"
    /\ \E j \in 1..Len(log) : log[j].kind = "ok"
    /\ \E key \in Range(initial) : ~DecodedInRange(key) /\ Present(key)
    /\ \A key \in Range(initial) : DecodedInRange(key) => ~Present(key)

\* ------------------------------------------------------------------ C7
DeleteSent == log # <<>> \/ inflight # NoRequest
SaidYes == LowerCased(answer) = <<"y", "e", "s">>

\* C7: in dry-run mode no delete request is ever sent; in live mode none is
\* sent, and deleteRecords is not entered, before the preview was shown and
\* the prompt answered 'yes' (compared after lower-casing, as confirm does);
\* any other answer ends the run without a delete request.
C7_NoDeleteUnconfirmed ==
    /\ dryRun => (~DeleteSent /\ dpc = "call" /\ collection = initial)
    /\ (DeleteSent \/ mpc = "deleting" \/ dpc # "call") => (previewShown /\ SaidYes)
    /\ (answer # NoAnswer /\ ~SaidYes) =>
           (mpc = "exit" /\ exitReason = "aborted" /\ ~DeleteSent /\ dpc = "call")

C7_Witness ==
    /\ ~dryRun
    /\ previewShown
    /\ answer = <<"Y", "e", "s">>
    /\ Len(log) >= 1
    /\ collection # initial

\* ----------------------------------------------------------------- C11
\* The character is one of the 32 symbols, in either case.
InAlphabet(c) == \E j \in 1..Len(B32_CHARS) : B32_CHARS[j] = ToLowerCase(c)
WellFormed(tid) == Len(tid) = 13 /\ \A j \in 1..13 : InAlphabet(tid[j])
\* Decoding the identifier threw during the scan.
Warned(tid) == \E w \in 1..Len(warnings) : warnings[w] = tid

\* C11 (as claimed): decoding fails for every identifier whose length is not
\* 13 and for every 13-character identifier with a character outside the
\* alphabet at any of its 13 places, the suffix included; an identifier of
\* 13 symbols of the alphabet, in upper or lower case, decodes.
C11_MalformedAlwaysFails ==
    \A j \in 1..Len(yielded) :
        /\ ~WellFormed(yielded[j]) => (Warned(yielded[j]) /\ ~Selected(yielded[j]))
        /\ WellFormed(yielded[j]) => (~Warned(yielded[j]) /\ Selected(yielded[j]))

\* ----------------------------------------------------------------- C12
\* UTF-16 code unit order of the characters that occur in identifiers.
CodeUnits == <<"!", "1", "2", "3", "4", "5", "6", "7">> \o UpperCase \o LowerCase
CodeOf == [c \in {CodeUnits[j] : j \in 1..Len(CodeUnits)} |->
              CHOOSE j \in 1..Len(CodeUnits) : CodeUnits[j] = c]
\* a < b as strings
RECURSIVE LexLess(_, _)
LexLess(a, b) ==
    IF b = <<>> THEN FALSE
    ELSE IF a = <<>> THEN TRUE
    ELSE IF Head(a) = Head(b) THEN LexLess(Tail(a), Tail(b))
    ELSE CodeOf[Head(a)] < CodeOf[Head(b)]
IsLowerCase(tid) == \A j \in 1..Len(tid) : tid[j] \notin DOMAIN LowerOf
\* The place of the identifier in the scan.
ScanPlace(rkey) == CHOOSE j \in 1..Len(yielded) : yielded[j] = rkey

\* C12 (as claimed): well-formed identifiers sorted by decoded time are in
\* lexicographic order whenever their encoded timestamps are distinct.
C12_TimeOrderIsLexOrder ==
    ppc = "done" =>
        \A a, b \in 1..Len(matches) :
            (/\ a < b
             /\ WellFormed(matches[a].rkey) /\ WellFormed(matches[b].rkey)
             /\ TimestampUs(matches[a].rkey) # TimestampUs(matches[b].rkey))
                => LexLess(matches[a].rkey, matches[b].rkey)

\* C12 (amended): sorted by decoded time, well-formed lower-case identifiers
\* that decode to different milliseconds are in lexicographic order;
\* well-formed identifiers that decode to the same millisecond stay in scan
\* order.
C12_TimeOrderIsLexOrderPerMs ==
    ppc = "done" =>
        \A a, b \in 1..Len(matches) :
            (a < b /\ WellFormed(matches[a].rkey) /\ WellFormed(matches[b].rkey)) =>
                /\ (/\ matches[a].createdAt # matches[b].createdAt
                    /\ IsLowerCase(matches[a].rkey)
                    /\ IsLowerCase(matches[b].rkey))
                   => LexLess(matches[a].rkey, matches[b].rkey)
                /\ matches[a].createdAt = matches[b].createdAt
                   => ScanPlace(matches[a].rkey) < ScanPlace(matches[b].rkey)

\* Three identifiers scanned newest first: two of one millisecond, 999 us
\* before epoch's, and a later one.
C12_Witness ==
    /\ ppc = "done"
    /\ yielded = <<Tid(1999, <<"2", "2">>), Tid(999, <<"2", "2">>), Tid(0, <<"2", "2">>)>>
    /\ Len(matches) = 3
    /\ matches[1].rkey = Tid(999, <<"2", "2">>)
    /\ matches[3].rkey = Tid(1999, <<"2", "2">>)

\* ----------------------------------------------------------------- C13
\* Digit value = position in the alphabet.
DigitValue(c) == (CHOOSE j \in 1..Len(B32_CHARS) : B32_CHARS[j] = ToLowerCase(c)) - 1
RECURSIVE Pow32(_)
Pow32(k) == IF k = 0 THEN 1 ELSE 32 * Pow32(k - 1)
\* The first 11 characters as a base-32 number, most significant first: the
\* sum of digit x 32^(11 - place).
RECURSIVE PlaceValueSum(_, _)
PlaceValueSum(tid, j) ==
    IF j > 11 THEN 0
    ELSE (IF DigitValue(tid[j]) = 0 THEN 0 ELSE DigitValue(tid[j]) * Pow32(11 - j))
         + PlaceValueSum(tid, j + 1)
Epoch13 == <<"2", "2", "2", "2", "2", "2", "2", "2", "2", "2", "2", "2", "2">>

\* C13: every well-formed identifier decodes, to floor(v / 1000) ms where v
\* is its first 11 characters as a base-32 number; the last 2 characters do
\* not matter; "2222222222222" decodes to 0.
C13_DecodesFloorOfMicroseconds ==
    /\ \A j \in 1..Len(yielded) : WellFormed(yielded[j]) => Selected(yielded[j])
    /\ \A m \in 1..Len(matches) :
           /\ matches[m].createdAt = PlaceValueSum(matches[m].rkey, 1) \div 1000
           /\ matches[m].rkey = Epoch13 => matches[m].createdAt = 0
    /\ \A a, b \in 1..Len(matches) :
           SubSeq(matches[a].rkey, 1, 11) = SubSeq(matches[b].rkey, 1, 11)
               => matches[a].createdAt = matches[b].createdAt

\* 1999 us decodes to 1 ms (not 2) under both suffixes, epoch to 0.
C13_Witness ==
    /\ ppc = "done"
    /\ \E a, b, c \in 1..Len(matches) :
          /\ matches[a].rkey = Tid(1999, <<"2", "2">>) /\ matches[a].createdAt = 1
          /\ matches[b].rkey = Tid(1999, <<"z", "j">>) /\ matches[b].createdAt = 1
          /\ matches[c].rkey = Epoch13 /\ matches[c].createdAt = 0

\* ----------------------------------------------------------------- C15
\* How many of the returned entries carry the key.
TimesReturned(rkey) == Cardinality({m \in 1..Len(matches) : matches[m].rkey = rkey})

MalformedScanned == SelectSeq(yielded, LAMBDA rkey : ~tidToDate(rkey).ok)

NoCoreWork == listLog = <<>> /\ ppc = "idle" /\ ~DeleteSent /\ dpc = "call"

\* C17: a run whose range has its start after its end, or whose login
\* fails, ends as fatal before any list or delete request is sent.
C17_FatalBeforeCoreWork ==
    /\ start > end =>
           /\ NoCoreWork
           /\ mpc \in {"args", "exit"}
           /\ mpc = "exit" => exitReason = "badRange"
    /\ exitReason = "authFailed" => (mpc = "exit" /\ NoCoreWork)

\* The run started after an interruption fails to log in while records of
\* the range are still in the collection.
C17_Witness ==
    /\ run = 2
    /\ mpc = "exit"
    /\ exitReason = "authFailed"
    /\ \E key \in Range(collection) : DecodedInRange(key)

\* ----------------------------------------------------------------- C14
\* The gap after the record at place k of the sorted list.
GapAfter(k) == fetched[k + 1] - fetched[k]
\* Places a..b are a maximal run: every gap inside is within the threshold,
\* the gaps on either side (if any) are not.
MaximalRun(a, b) ==
    /\ a <= b
    /\ \A k \in a..(b - 1) : GapAfter(k) <= gap * 1000
    /\ a = 1 \/ GapAfter(a - 1) > gap * 1000
    /\ b = Len(fetched) \/ GapAfter(b) > gap * 1000
\* The maximal runs of at least minBlock records.
Blocks == {r \in (1..Len(fetched)) \X (1..Len(fetched)) :
             MaximalRun(r[1], r[2]) /\ r[2] - r[1] + 1 >= minBlock}
ExampleTimes == <<0, 10000, 20000, 90000, 95000, 100000>>

C18_OnlyMoreThanMinBlock ==
    \A k \in 1..Len(reported) : Len(reported[k].block) > minBlock

\* ----------------------------------------------------------------- C19
\* Every response for record r so far was an error other than 429 and
\* not-found.
OnlyOtherErrors(r) ==
    /\ \E k \in 1..Len(log) : log[k].rec = r
    /\ \A k \in 1..Len(log) : log[k].rec = r => log[k].kind = "other"
\* How many of the first j progress reports tell of a failure.
FailuresUpTo(j) == Cardinality({k \in 1..j : ~progress[k].success})

\* C19: a record whose every delete is answered with an error other than 429
\* and not-found is attempted exactly MAX_RETRIES = 3 times, the second
\* request 1000 ms after the first failure and the third 2000 ms after the
\* second, and is then counted as failed, its message recorded in its turn.
C19_ThreeAttemptsWithBackoff ==
    \A r \in 0..(Len(records) - 1) :
        OnlyOtherErrors(r) =>
            /\ \A k \in 1..Len(log) :
                   log[k].rec = r =>
                       /\ log[k].attempt < MAX_RETRIES
                       /\ IF k > 1 /\ log[k - 1].rec = r
                          THEN /\ log[k].attempt = log[k - 1].attempt + 1
                               /\ log[k - 1].attempt = 0 =>
                                      log[k].at = log[k - 1].answered + 1000
                               /\ log[k - 1].attempt = 1 =>
                                      log[k].at = log[k - 1].answered + 2000
                          ELSE log[k].attempt = 0
            /\ r < i =>
                   /\ \E k \in 1..Len(log) :
                          log[k].rec = r /\ log[k].attempt = MAX_RETRIES - 1
                   /\ ~progress[r + 1].success
                   /\ errors[FailuresUpTo(r + 1)] =
                          <<"Failed to delete", records[r + 1], "Internal Server Error">>
            /\ (r = i /\ dpc \in {"send", "await"}) =>
                   \A k \in 1..Len(log) : log[k].rec = r => log[k].attempt < attempt

\* The second record fails after three errors; the records around it are
\* deleted.
C19_Witness ==
    /\ dpc = "done"
    /\ Len(records) = 3
    /\ OnlyOtherErrors(1)
    /\ Cardinality({k \in 1..Len(log) : log[k].rec = 1}) = 3
    /\ deleted = 2 /\ failed = 1
    /\ Len(errors) = 1

\* ----------------------------------------------------------------- C20
\* When the wait that follows the 429 response e is over.
ResumesAt(e) ==
    IF e.hint = NoHint THEN e.answered + 60000
    ELSE Max(e.hint * 1000, e.answered + 1000)
\* A request was sent after the response log[j]; NextRequest is that request.
HasNextRequest(j) == j < Len(log) \/ inflight # NoRequest
NextRequest(j) == IF j < Len(log) THEN log[j + 1] ELSE inflight

\* C20: after a 429 response the next delete request is not sent before the
\* hinted reset time, or 60 s after the response when there is no hint, and
\* never less than 1 s after the response, also for a hint in the past;
\* while attempts remain that request is the retry of the same record, sent
\* at exactly that time.
C20_RateLimitWait ==
    \A j \in 1..Len(log) :
        log[j].kind = "rateLimited" =>
            /\ ResumesAt(log[j]) >= log[j].answered + 1000
            /\ HasNextRequest(j) =>
                   /\ NextRequest(j).at >= ResumesAt(log[j])
                   /\ log[j].attempt < MAX_RETRIES - 1 =>
                          /\ NextRequest(j).rec = log[j].rec
                          /\ NextRequest(j).attempt = log[j].attempt + 1
                          /\ NextRequest(j).at = ResumesAt(log[j])
            /\ j = Len(log) => now >= ResumesAt(log[j])
            /\ (/\ j = Len(log)
                /\ inflight = NoRequest
                /\ log[j].attempt < MAX_RETRIES - 1) =>
                   (dpc = "send" /\ now = ResumesAt(log[j]))

\* 429 without a hint, with a hint in the past and with a hint ahead, each
\* followed by another request.
C20_Witness ==
    /\ inflight # NoRequest
    /\ \E a, b, c \in 1..Len(log) :
          /\ log[a].kind = "rateLimited" /\ log[a].hint = NoHint
          /\ log[b].kind = "rateLimited" /\ log[b].hint = 0
          /\ log[c].kind = "rateLimited" /\ log[c].hint * 1000 > log[c].answered + 1000

\* ----------------------------------------------------------------- C21
\* The window count is within 0..cap, and below the cap while a record's
\* delete is being attempted.
WindowCountInBounds ==
    /\ 0 <= deletionsThisWindow
    /\ deletionsThisWindow <= MAX_DELETIONS_PER_HOUR
    /\ dpc \in {"send", "await"} => deletionsThisWindow < MAX_DELETIONS_PER_HOUR
\* The quota check is about to find an hour elapsed since the window start.
HourElapsedAtCheck == dpc = "enforce" /\ now - windowStart >= HOUR_MS

\* C21: in every state of a deletion run 0 <= deletionsThisWindow <= cap, a
\* record's delete is attempted only while deletionsThisWindow < cap, and a
\* quota check that finds an hour elapsed since the window start sets the
\* count to 0 and restarts the window at the current time.
C21_WindowCountAndReset ==
    [][/\ WindowCountInBounds
       /\ WindowCountInBounds'
       /\ HourElapsedAtCheck =>
              /\ deletionsThisWindow' = 0
              /\ windowStart' = now
              /\ now' = now
              /\ quotaWaits' = quotaWaits]_vars

\* The window was restarted by the hourly reset, not by a quota wait: a
\* record was deleted before and the next one is about to be sent.
C21_Witness ==
    /\ dpc = "send"
    /\ attempt = 0
    /\ deleted >= 1
    /\ quotaWaits = <<>>
    /\ windowStart = now
    /\ windowStart >= ClockStartMs + HOUR_MS
    /\ deletionsThisWindow = 0

\* ----------------------------------------------------------------- C22
\* C22: records are processed strictly in input order with at most one call
\* in flight: a request is sent only after the one before it was answered,
\* requests never go back to an earlier record, a request for a record is
\* sent only after every record before it was reported with its outcome, and
\* quota waits are taken in that order too.
C22_InOrderOneInFlight ==
    /\ Len(progress) = i
    /\ \A j \in 1..Len(progress) :
           progress[j].current = j /\ progress[j].rkey = records[j]
    /\ \A k \in 1..Len(log) :
           /\ log[k].rec <= i
           /\ log[k].rec < Len(records)
           /\ log[k].answered >= log[k].at
           /\ k > 1 =>
                  /\ log[k].at >= log[k - 1].answered
                  /\ log[k].rec \in {log[k - 1].rec, log[k - 1].rec + 1}
    /\ log # <<>> => log[1].rec = 0
    /\ log # <<>> => log[Len(log)].rec \in {i - 1, i}
    /\ inflight # NoRequest =>
           /\ dpc = "await"
           /\ inflight.rec = i
           /\ inflight.at = now
           /\ log # <<>> => inflight.at >= log[Len(log)].answered
    /\ dpc = "await" => inflight # NoRequest
    /\ \A w \in 1..Len(quotaWaits) :
           /\ quotaWaits[w].rec <= i
           /\ w > 1 => quotaWaits[w].rec > quotaWaits[w - 1].rec
    /\ deletionsThisWindow <= deleted

\* Three records, one of them retried, with the quota wait before the third.
C22_Witness ==
    /\ dpc = "done"
    /\ Len(records) = 3
    /\ Len(log) = 4
    /\ Len(quotaWaits) = 1
    /\ quotaWaits[1].rec = 2
    /\ deleted = 3

\* ----------------------------------------------------------------- C23
\* C23: whatever the outcome of a delete attempt, the next delete request is
\* sent at least the inter-record delay (50 ms) after its response.
C23_DelayAfterEveryAttempt ==
    \A j \in 1..Len(log) :
        /\ HasNextRequest(j) => NextRequest(j).at >= log[j].answered + 50
        /\ (j = Len(log) /\ inflight = NoRequest) =>
               now >= log[j].answered + INTER_RECORD_DELAY_MS

\* A record's third attempt fails and a deleted record follows, each with
\* the next request exactly 50 ms after the response.
C23_Witness ==
    \E a, b \in 1..Len(log) :
        /\ log[a].kind = "other" /\ log[a].attempt = MAX_RETRIES - 1
        /\ HasNextRequest(a)
        /\ NextRequest(a).at = log[a].answered + INTER_RECORD_DELAY_MS
        /\ log[b].kind = "ok"
        /\ HasNextRequest(b)
        /\ NextRequest(b).at = log[b].answered + INTER_RECORD_DELAY_MS

\* ----------------------------------------------------------------- C24
\* The entries the j-th list response carried, and those of the first n
\* responses in the order received.
ReceivedPage(j) == SubSeq(After(Offset(listLog[j].cursor)), 1, listLog[j].len)
RECURSIVE ReceivedPages(_)
ReceivedPages(n) == IF n = 0 THEN <<>> ELSE ReceivedPages(n - 1) \o ReceivedPage(n)
\* The number of list requests answered so far.
AnsweredCount ==
    IF listLog # <<>> /\ ~listLog[Len(listLog)].answered THEN Len(listLog) - 1
    ELSE Len(listLog)

\* C24: the first list request carries no cursor and every later one the
\* cursor of the response just before it; a request is made only when every
\* entry received so far has been yielded; the entries yielded are the
\* entries received, in the order received, none dropped or repeated.
C24_CursorChainAndOrder ==
    /\ listLog # <<>> => listLog[1].cursor = NoCursor
    /\ \A j \in 2..Len(listLog) :
           listLog[j - 1].answered /\ listLog[j].cursor = listLog[j - 1].next
    /\ ppc = "request" =>
           cursor = IF listLog = <<>> THEN NoCursor ELSE listLog[Len(listLog)].next
    /\ ppc = "await" => AnsweredCount = Len(listLog) - 1
    /\ ppc \in {"request", "await", "done"} => yielded = ReceivedPages(AnsweredCount)
    /\ ppc = "yield" =>
           /\ page = ReceivedPage(Len(listLog))
           /\ yielded = ReceivedPages(Len(listLog) - 1) \o SubSeq(page, 1, pidx)

\* Three requests: none, then twice the cursor of the page before; all four
\* entries yielded in the order received.
C24_Witness ==
    /\ ppc = "done"
    /\ Len(listLog) = 3
    /\ listLog[2].cursor # NoCursor
    /\ listLog[3].cursor # listLog[2].cursor
    /\ Len(yielded) = 4
    /\ yielded = collection

\* ----------------------------------------------------------------- C25
\* The response that decided record r (0-based): a success, a not-found, or
\* the error of the last attempt.
Decides(e, r) ==
    /\ e.rec = r
    /\ e.kind \in {"ok", "notFound"} \/ e.attempt = MAX_RETRIES - 1

\* C25: at every point deleted + failed is the number of records processed
\* so far, with one progress report per processed record, current = 1, 2,
\* ... in order, whose success flag tells the tally the record was counted
\* in, and errors holds one message per failed record in the order of the
\* failures; on return every record of the input has been processed.
C25_TalliesAndReports ==
    /\ deleted + failed = i
    /\ Len(progress) = i
    /\ Len(errors) = failed
    /\ Cardinality({j \in 1..Len(progress) : progress[j].success}) = deleted
    /\ FailuresUpTo(Len(progress)) = failed
    /\ \A j \in 1..Len(progress) :
           /\ progress[j].current = j
           /\ progress[j].total = Len(records)
           /\ progress[j].rkey = records[j]
           /\ \E k \in 1..Len(log) :
                  /\ Decides(log[k], j - 1)
                  /\ progress[j].success = (log[k].kind \in {"ok", "notFound"})
                  /\ ~progress[j].success =>
                         errors[FailuresUpTo(j)] =
                             <<"Failed to delete", records[j], ErrMessage(log[k].kind)>>
    /\ dpc = "done" => (i = Len(records) /\ deleted + failed = Len(records))

\* The first and the third record fail, with different keys and different
\* last errors; the second is deleted.
C25_Witness ==
    /\ dpc = "done"
    /\ Len(records) = 3
    /\ records[1] # records[3]
    /\ deleted = 1 /\ failed = 2
    /\ [j \in 1..3 |-> progress[j].success] = <<FALSE, TRUE, FALSE>>
    /\ errors = <<<<"Failed to delete", records[1], "Internal Server Error">>,
                  <<"Failed to delete", records[3], "Rate Limit Exceeded">>>>

\* ----------------------------------------------------------------- C26
\* The delete requests sent so far for record r (0-based).
RequestsFor(r) ==
    Cardinality({k \in 1..Len(log) : log[k].rec = r})
        + (IF inflight.rec = r THEN 1 ELSE 0)

\* C26: whatever the service answers, deleteRecords returns in the end, and
\* it never sends more than MAX_RETRIES = 3 delete requests for one record.
C26_TerminatesWithinThreeRequests ==
    /\ <>(dpc = "done")
    /\ [](\A r \in 0..(Len(records) - 1) : RequestsFor(r) <= 3)

\* deleteRecords has returned after three requests for the first of three
\* records: a 429, another error, then a success.
C26_Witness ==
    /\ dpc = "done"
    /\ Len(records) = 3
    /\ RequestsFor(0) = 3
    /\ log[1].kind = "rateLimited"
    /\ log[2].kind = "other"
    /\ log[3].kind = "ok"

====
